---- MODULE Spec2Model ----
(***************************************************************************)
(* Model of browserslist-useragent (src/index.js): resolution of a parsed  *)
(* user agent into (family, version), expansion of the browserslist token  *)
(* list into targets, and the semver comparison that decides a match.      *)
(*                                                                         *)
(* Strings that name browsers are TLA+ strings.  A version string is the   *)
(* sequence of its dot-separated components, so String.split('.') and      *)
(* Array.join('.') are the identity on the representation; a component is  *)
(* a record saying what text it is: an optional minus sign, an optional    *)
(* run of decimal digits (its value) and a tail of other characters.       *)
(* undefined is the empty sequence, which no split produces.               *)
(***************************************************************************)
EXTENDS Integers, Sequences, FiniteSets, TLC

VARIABLES
    pc,                 \* which function is being applied, "done" after it returned
    parsedUA,           \* UAParser(strippedUA): browser, os and engine name/version
    resolvedUserAgent,  \* value returned by resolveUserAgent
    versionA,           \* compareBrowserSemvers: candidate version
    versionB,           \* compareBrowserSemvers: target version
    cmpOptions,         \* compareBrowserSemvers: options
    cmpResult,          \* completion of compareBrowserSemvers
    tokenName,          \* name of the token whose version is versionRange
    versionRange,       \* generateSemversInRange: the "<start>-<end>" token version
    versionsInRange,    \* completion of generateSemversInRange
    browsers,           \* the token list browserslist() returned
    opts,               \* matchesUA: the caller's options
    parsedBrowsers,     \* completion of parseBrowsersList
    options,            \* matchesUA: the merged options
    result,             \* completion of matchesUA
    handed              \* version strings handed to semver.gte / semver.satisfies

vars == << pc, parsedUA, resolvedUserAgent, versionA, versionB, cmpOptions, cmpResult,
           tokenName, versionRange, versionsInRange, browsers, opts, parsedBrowsers,
           options, result, handed >>

----------------------------------------------------------------------------
(* Bounds of the model *)

\* components of the enumerated versions are drawn from 0..MaxComp
MaxComp == 2

\* token lists handed to parseBrowsersList have at most MaxTokens tokens
MaxTokens == 2

\* stand-in for the heap of the JavaScript engine: the array built by
\* generateSemversInRange cannot hold more than MaxHeapVersions strings
MaxHeapVersions == 6

----------------------------------------------------------------------------
(* Text of version components *)

\* the decimal text of a non-negative integer
Num(n) == [minus |-> FALSE, hasDigits |-> TRUE, val |-> n, tail |-> ""]

\* "-" followed by the decimal text of n
Neg(n) == [minus |-> TRUE, hasDigits |-> TRUE, val |-> n, tail |-> ""]

\* text without a leading number ("" is the empty component)
Word(w) == [minus |-> FALSE, hasDigits |-> FALSE, val |-> 0, tail |-> w]

\* digits followed by other characters, such as "1b"
NumWord(n, w) == [minus |-> FALSE, hasDigits |-> TRUE, val |-> n, tail |-> w]

\* undefined
ABSENT == << >>

\* the empty string: split('.') gives one empty component
EmptyString == << Word("") >>

\* a version string written as its numeric components
Ver(ns) == [i \in 1..Len(ns) |-> Num(ns[i])]

\* String(n) as Array.prototype.join writes a number
NumberToString(n) == IF n < 0 THEN Neg(0 - n) ELSE Num(n)

\* parseInt(value): the leading signed integer, NaN when there is none
ParseInt(c) ==
    IF c.hasDigits
    THEN [nan |-> FALSE, int |-> IF c.minus THEN 0 - c.val ELSE c.val]
    ELSE [nan |-> TRUE, int |-> 0]

\* a JavaScript value is falsy when undefined or the empty string
Falsy(v) == v = ABSENT \/ v = EmptyString

parseNumber(value) ==
    LET int == ParseInt(value)
    IN  IF value = Word("") \/ int.nan THEN 0 ELSE int.int

\* version.split('.').slice(0, 3) with the defaults of the destructuring,
\* each parsed and the three joined with '.'
getNormalizedVersion(version) ==
    LET v == IF version = ABSENT THEN Ver(<<0, 0, 0>>) ELSE version
        part(i) == IF i <= Len(v) THEN parseNumber(v[i]) ELSE 0
    IN  << NumberToString(part(1)), NumberToString(part(2)), NumberToString(part(3)) >>

----------------------------------------------------------------------------
(* The semver package, as far as src/index.js uses it *)

\* a numeric identifier of a semantic version
NumericIdentifier(c) == c.hasDigits /\ ~c.minus /\ c.tail = ""

\* semver.valid: MAJOR.MINOR.PATCH of numeric identifiers
SemverValid(v) == Len(v) = 3 /\ \A i \in 1..3 : NumericIdentifier(v[i])

\* semver.compare(a, b) >= 0 on valid versions: major, then minor, then patch
VersionGte(a, b) ==
    \/ a[1].val > b[1].val
    \/ a[1].val = b[1].val /\ a[2].val > b[2].val
    \/ a[1].val = b[1].val /\ a[2].val = b[2].val /\ a[3].val >= b[3].val

\* semver.gte throws a TypeError on a version it cannot parse
SemverGte(a, b) ==
    IF SemverValid(a) /\ SemverValid(b)
    THEN [threw |-> "", value |-> VersionGte(a, b)]
    ELSE [threw |-> "TypeError", value |-> FALSE]

\* semver.inc(v, 'minor')
SemverIncMinor(v) == << v[1], Num(v[2].val + 1), Num(0) >>

\* the version that closes the range of a caret: the leftmost non-zero
\* component is the one that may not change
CaretUpper(b) ==
    IF b[1].val > 0 THEN << Num(b[1].val + 1), Num(0), Num(0) >>
    ELSE IF b[2].val > 0 THEN << Num(0), Num(b[2].val + 1), Num(0) >>
    ELSE << Num(0), Num(0), Num(b[3].val + 1) >>

\* semver.satisfies(a, op + b): false, never a throw, when the version or
\* the range cannot be parsed.  "" is b itself, "~" is >=b <M.(m+1).0,
\* "^" is >=b <CaretUpper(b)
SemverSatisfies(a, ref) ==
    LET b == ref.version
    IN  IF ~(SemverValid(a) /\ SemverValid(b)) THEN FALSE
        ELSE IF ref.op = "~"
        THEN VersionGte(a, b) /\ ~VersionGte(a, << b[1], Num(b[2].val + 1), Num(0) >>)
        ELSE IF ref.op = "^"
        THEN VersionGte(a, b) /\ ~VersionGte(a, CaretUpper(b))
        ELSE a = b

----------------------------------------------------------------------------
(* semverify and compareBrowserSemvers *)

RECURSIVE PadToThree(_)
PadToThree(split) == IF Len(split) < 3 THEN PadToThree(Append(split, Num(0))) ELSE split

\* Convert version to a semver value: 2.5 -> 2.5.0; 1 -> 1.0.0
semverify(version) ==
    IF SemverValid(version) THEN version ELSE PadToThree(version)

\* options.<key> read as a condition: a missing key is undefined
Truthy(o, key) == key \in DOMAIN o /\ o[key]

\* the reference handed to semver.satisfies
ReferenceVersion(semverifiedB, o) ==
    LET r0 == [op |-> "", version |-> semverifiedB]
        r1 == IF Truthy(o, "ignorePatch") THEN [op |-> "~", version |-> semverifiedB] ELSE r0
    IN  IF Truthy(o, "ignoreMinor") THEN [op |-> "^", version |-> semverifiedB] ELSE r1

\* compareBrowserSemvers with the arguments of semver.gte exchanged
compareBrowserSemvers_gteSwapped(vA, vB, o) ==
    LET semverifiedA == semverify(vA)
        semverifiedB == semverify(vB)
    IN  IF Truthy(o, "allowHigherVersions")
        THEN SemverGte(semverifiedB, semverifiedA)
        ELSE [threw |-> "",
              value |-> SemverSatisfies(semverifiedA, ReferenceVersion(semverifiedB, o))]

compareBrowserSemvers(vA, vB, o) ==
    LET semverifiedA == semverify(vA)
        semverifiedB == semverify(vB)
    IN  IF Truthy(o, "allowHigherVersions")
        THEN SemverGte(semverifiedA, semverifiedB)
        ELSE [threw |-> "",
              value |-> SemverSatisfies(semverifiedA, ReferenceVersion(semverifiedB, o))]

----------------------------------------------------------------------------
(* resolveUserAgent *)

\* name.includes(sub) for the names the model draws parsedUA.browser.name from
Includes(name, sub) ==
    \/ name = sub
    \/ sub = "Safari" /\ name = "Mobile Safari"

\* the rules that follow the named overrides with the two Android rules in
\* the other order
FallbackRules_androidBrowserFirst(p, version) ==
    IF p.browser.name = "Android Browser"
    THEN [family |-> "Android", version |-> getNormalizedVersion(p.os.version)]
    ELSE IF p.engine.name = "Blink" /\ p.os.name = "Android"
    THEN [family |-> "Chrome", version |-> getNormalizedVersion(p.engine.version)]
    ELSE [family |-> p.browser.name, version |-> version]

\* resolveUserAgent, lines 129 to 146: the rules that follow the named overrides
FallbackRules(p, version) ==
    IF p.engine.name = "Blink" /\ p.os.name = "Android"
    THEN [family |-> "Chrome", version |-> getNormalizedVersion(p.engine.version)]
    ELSE IF p.browser.name = "Android Browser"
    THEN [family |-> "Android", version |-> getNormalizedVersion(p.os.version)]
    ELSE [family |-> p.browser.name, version |-> version]

\* resolveUserAgent, lines 82 to 147 (Case C)
CaseC(p) ==
    LET version == getNormalizedVersion(p.browser.version)
    IN  IF \/ Includes(p.browser.name, "Chrome Mobile")
           \/ Includes(p.browser.name, "Chrome WebView")
           \/ Includes(p.browser.name, "Chromium")
           \/ Includes(p.browser.name, "Chrome Headless")
        THEN [family |-> "Chrome", version |-> version]
        ELSE IF p.browser.name = "Samsung Browser"
        THEN [family |-> "Samsung", version |-> version]
        ELSE IF p.browser.name = "Firefox Mobile"
        THEN [family |-> "Firefox", version |-> version]
        ELSE IF p.browser.name = "IE"
        THEN [family |-> "Explorer", version |-> version]
        ELSE IF p.browser.name = "IEMobile"
        THEN [family |-> "ExplorerMobile", version |-> version]
        ELSE FallbackRules(p, version)

\* resolveUserAgent without Case B: only Safari is proxied to iOS
resolveUserAgent_noCaseB(p) ==
    IF p.browser.name = ""
    THEN [family |-> "", version |-> Ver(<<0, 0, 0>>)]
    ELSE IF Includes(p.browser.name, "Safari") /\ p.os.name = "iOS"
    THEN [family |-> "iOS",
          version |-> getNormalizedVersion(
                          IF Falsy(p.browser.version) THEN p.os.version
                          ELSE p.browser.version)]
    ELSE CaseC(p)

\* the value resolveUserAgent returns for the tokenizer's output p; an
\* absent name (undefined) is written "", which is falsy as well
resolveUserAgent(p) ==
    IF p.browser.name = ""
    THEN [family |-> "", version |-> Ver(<<0, 0, 0>>)]
    ELSE IF Includes(p.browser.name, "Safari") /\ p.os.name = "iOS"
    THEN [family |-> "iOS",
          version |-> getNormalizedVersion(
                          IF Falsy(p.browser.version) THEN p.os.version
                          ELSE p.browser.version)]
    ELSE IF p.os.name = "iOS"
    THEN [family |-> "iOS", version |-> getNormalizedVersion(p.os.version)]
    ELSE CaseC(p)

----------------------------------------------------------------------------
(* generateSemversInRange and parseBrowsersList *)

\* the while loop of generateSemversInRange.  semver.gte throws on a
\* version it cannot parse; the loop has no other exit than its condition,
\* so an array that outgrows the heap ends the process
RECURSIVE RangeLoop(_, _, _)
RangeLoop(endSemver, curVersion, acc) ==
    LET cond == SemverGte(endSemver, curVersion)
    IN  IF cond.threw # "" THEN [threw |-> cond.threw, value |-> acc]
        ELSE IF ~cond.value THEN [threw |-> "", value |-> acc]
        ELSE IF Len(acc) >= MaxHeapVersions THEN [threw |-> "OutOfMemory", value |-> acc]
        ELSE RangeLoop(endSemver, SemverIncMinor(curVersion), Append(acc, curVersion))

\* generateSemversInRange as a do-while loop: the start is emitted before
\* the first comparison
generateSemversInRange_emitFirst(range) ==
    LET startSemver == semverify(range[1])
        endSemver == semverify(range[2])
    IN  RangeLoop(endSemver, SemverIncMinor(startSemver), << startSemver >>)

\* 10.0-10.2 -> 10.0, 10.1, 10.2.  A token version is the sequence of its
\* '-'-separated parts, so split('-') is the identity on it
generateSemversInRange(range) ==
    LET startSemver == semverify(range[1])
        endSemver == semverify(range[2])
    IN  RangeLoop(endSemver, startSemver, << >>)

browserNameMap(name) ==
    CASE name = "bb" -> "BlackBerry"
      [] name = "and_chr" -> "Chrome"
      [] name = "ChromeAndroid" -> "Chrome"
      [] name = "FirefoxAndroid" -> "Firefox"
      [] name = "ff" -> "Firefox"
      [] name = "ie_mob" -> "ExplorerMobile"
      [] name = "ie" -> "Explorer"
      [] name = "and_ff" -> "Firefox"
      [] name = "ios_saf" -> "iOS"
      [] name = "op_mini" -> "OperaMini"
      [] name = "op_mob" -> "OperaMobile"
      [] name = "and_qq" -> "QQAndroid"
      [] name = "and_uc" -> "UCAndroid"
      [] OTHER -> name

\* the version field "TP"
TP == << << Word("TP") >> >>

\* browser.version.indexOf('-') > 0
IsRange(version) == Len(version) >= 2 /\ version[1] # EmptyString

\* what the second map of parseBrowsersList returns for one token: an
\* array of targets for a range, one target otherwise
ParseBrowser(browser) ==
    LET normalizedName == browserNameMap(browser.name)
    IN  IF IsRange(browser.version)
        THEN LET g == generateSemversInRange(browser.version)
             IN  [threw |-> g.threw,
                  value |-> [i \in 1..Len(g.value) |->
                                [family |-> normalizedName, version |-> g.value[i]]]]
        ELSE [threw |-> "",
              value |-> << [family |-> normalizedName, version |-> browser.version[1]] >>]

\* map, filter out "TP", map, flatten: the targets in the order of the tokens
RECURSIVE parseBrowsersList(_)
parseBrowsersList(browsersList) ==
    IF browsersList = << >> THEN [threw |-> "", value |-> << >>]
    ELSE LET browser == Head(browsersList)
             rest == parseBrowsersList(Tail(browsersList))
         IN  IF browser.version = TP THEN rest
             ELSE LET one == ParseBrowser(browser)
                  IN  IF one.threw # "" THEN [threw |-> one.threw, value |-> << >>]
                      ELSE IF rest.threw # "" THEN rest
                      ELSE [threw |-> "", value |-> one.value \o rest.value]

----------------------------------------------------------------------------
(* matchesUA *)

\* a comparison of the families as they are written
ToLowerCase_asWritten(name) == name

\* String.prototype.toLowerCase on the names the model uses; every other
\* name of the model is written in lower case already
ToLowerCase(name) ==
    CASE name = "Chrome" -> "chrome"
      [] name = "iOS" -> "ios"
      [] name = "Firefox" -> "firefox"
      [] name = "Explorer" -> "explorer"
      [] name = "ExplorerMobile" -> "explorermobile"
      [] name = "Samsung" -> "samsung"
      [] name = "Android" -> "android"
      [] name = "Safari" -> "safari"
      [] name = "Mobile Safari" -> "mobile safari"
      [] name = "Opera" -> "opera"
      [] OTHER -> name

\* String.prototype.toLocaleLowerCase in a locale that lower-cases the
\* ASCII letters as toLowerCase does (every locale but tr, az and lt)
ToLocaleLowerCase(name) == ToLowerCase(name)

\* the defaults matchesUA spreads the caller's options over
DefaultOptions == [ignoreMinor |-> FALSE, ignorePatch |-> TRUE]

\* { ...opts, ignoreMinor: false, ignorePatch: true }: the defaults win
MergeOptions_defaultsWin(o) ==
    [k \in DOMAIN DefaultOptions \cup DOMAIN o |->
        IF k \in DOMAIN DefaultOptions THEN DefaultOptions[k] ELSE o[k]]

\* { ignoreMinor: false, ignorePatch: true, ...opts }
MergeOptions(o) ==
    [k \in DOMAIN DefaultOptions \cup DOMAIN o |->
        IF k \in DOMAIN o THEN o[k] ELSE DefaultOptions[k]]

\* the callback of parsedBrowsers.some for one target
MatchesBrowser(browser, ua, o) ==
    IF ToLowerCase(browser.family) = ToLocaleLowerCase(ua.family)
    THEN compareBrowserSemvers(ua.version, browser.version, o)
    ELSE [threw |-> "", value |-> FALSE]

\* Array.prototype.some: in order, stopping at the first true or throw
RECURSIVE Some(_, _, _)
Some(targets, ua, o) ==
    IF targets = << >> THEN [threw |-> "", value |-> FALSE]
    ELSE LET m == MatchesBrowser(Head(targets), ua, o)
         IN  IF m.threw # "" \/ m.value THEN m ELSE Some(Tail(targets), ua, o)

\* the version strings the calls made by Some hand to the semver package
RECURSIVE Handed(_, _, _)
Handed(targets, ua, o) ==
    IF targets = << >> THEN {}
    ELSE LET browser == Head(targets)
             m == MatchesBrowser(browser, ua, o)
             here == IF ToLowerCase(browser.family) = ToLocaleLowerCase(ua.family)
                     THEN {semverify(ua.version), semverify(browser.version)}
                     ELSE {}
         IN  IF m.threw # "" \/ m.value THEN here
             ELSE here \cup Handed(Tail(targets), ua, o)

----------------------------------------------------------------------------
(* Inputs *)

Keys == {"ignorePatch", "ignoreMinor", "allowHigherVersions"}

\* every options object over the three keys, each key absent, true or false
OptionSets == UNION { [ks -> BOOLEAN] : ks \in SUBSET Keys }

\* MAJOR.MINOR.PATCH with components in 0..MaxComp
Versions3 == { Ver(<<a, b, c>>) : a \in 0..MaxComp, b \in 0..MaxComp, c \in 0..MaxComp }

\* the versions browserslist writes: one to three numeric components
PartialVersions ==
    { Ver(<<a>>) : a \in 0..MaxComp }
    \cup { Ver(<<a, b>>) : a \in 0..MaxComp, b \in 0..MaxComp }
    \cup Versions3

\* the versions of the examples of the specification
ExampleVersions ==
    { Ver(<<10, 1, 5>>), Ver(<<10, 1, 9>>), Ver(<<10, 2, 0>>), Ver(<<10, 0, 0>>),
      Ver(<<12, 0, 0>>) }

NoCompletion == [threw |-> "", value |-> FALSE]
NoSequence == [threw |-> "", value |-> << >>]
NoBrowser == [family |-> "", version |-> ABSENT]
NoParsedUA ==
    [browser |-> [name |-> "", version |-> ABSENT],
     os |-> [name |-> "", version |-> ABSENT],
     engine |-> [name |-> "", version |-> ABSENT]]

\* the variables a specification does not use
IdleResolve == parsedUA = NoParsedUA /\ resolvedUserAgent = NoBrowser
IdleCompare ==
    /\ versionA = ABSENT
    /\ versionB = ABSENT
    /\ cmpOptions = << >>
    /\ cmpResult = NoCompletion
IdleRange == tokenName = "" /\ versionRange = << >> /\ versionsInRange = NoSequence
IdleMatch ==
    /\ browsers = << >>
    /\ parsedBrowsers = NoSequence
    /\ opts = << >>
    /\ options = << >>
    /\ result = NoCompletion
    /\ handed = {}

----------------------------------------------------------------------------
(* compareBrowserSemvers applied to every candidate, target and options *)

InitCompare ==
    /\ pc = "compareBrowserSemvers"
    /\ versionA \in Versions3 \cup ExampleVersions
    /\ versionB \in Versions3 \cup ExampleVersions \cup {Ver(<<10>>), Ver(<<10, 1>>)}
    /\ cmpOptions \in OptionSets
    /\ cmpResult = NoCompletion
    /\ IdleResolve /\ IdleRange /\ IdleMatch

CompareBrowserSemvers ==
    /\ pc = "compareBrowserSemvers"
    /\ cmpResult' = compareBrowserSemvers(versionA, versionB, cmpOptions)
    /\ pc' = "done"
    /\ UNCHANGED << parsedUA, resolvedUserAgent, versionA, versionB, cmpOptions,
                    tokenName, versionRange, versionsInRange, browsers, opts,
                    parsedBrowsers, options, result, handed >>

SpecCompare == InitCompare /\ [][CompareBrowserSemvers]_vars

----------------------------------------------------------------------------
(* Properties of compareBrowserSemvers, under SpecCompare *)

\* the i-th numeric component of a version, 0 when it is not written
Component(v, i) == IF i <= Len(v) THEN v[i].val ELSE 0

SameMajor == Component(versionA, 1) = Component(versionB, 1)
SameMinor == Component(versionA, 2) = Component(versionB, 2)

\* candidate >= target: major, then minor, then patch, numerically
CandidateAtLeastTarget ==
    LET a(i) == Component(versionA, i)
        b(i) == Component(versionB, i)
    IN  a(1) > b(1) \/ (a(1) = b(1) /\ (a(2) > b(2) \/ (a(2) = b(2) /\ a(3) >= b(3))))

Compared == pc = "done" /\ cmpResult.threw = ""

\* C2: with ignorePatch set and ignoreMinor and allowHigherVersions unset, a
\* candidate qualifies if and only if it has the major and the minor of the
\* target, whatever the patch components are.
C2_SameMajorMinorIffMatch ==
    (/\ Compared
     /\ Truthy(cmpOptions, "ignorePatch")
     /\ ~Truthy(cmpOptions, "ignoreMinor")
     /\ ~Truthy(cmpOptions, "allowHigherVersions"))
    => (cmpResult.value <=> (SameMajor /\ SameMinor))

\* C3: with ignoreMinor set and allowHigherVersions unset, a candidate
\* qualifies if and only if it has the major of the target, whatever the
\* minor and patch components are, and ignorePatch does not change the result.
C3_SameMajorIffMatch ==
    (/\ Compared
     /\ Truthy(cmpOptions, "ignoreMinor")
     /\ ~Truthy(cmpOptions, "allowHigherVersions"))
    => /\ cmpResult.value <=> SameMajor
       /\ \A p \in BOOLEAN :
            cmpResult = compareBrowserSemvers(versionA, versionB,
                            [k \in DOMAIN cmpOptions \cup {"ignorePatch"} |->
                                IF k = "ignorePatch" THEN p ELSE cmpOptions[k]])

\* C4: with allowHigherVersions set, a candidate qualifies if and only if
\* candidate >= target (major, then minor, then patch), whatever ignorePatch
\* and ignoreMinor are; without it and with the default options otherwise,
\* candidate 12.0.0 does not match target 10.0.0.
C4_AllowHigherVersions ==
    /\ (pc = "done" /\ Truthy(cmpOptions, "allowHigherVersions"))
        => (cmpResult.threw = "" /\ (cmpResult.value <=> CandidateAtLeastTarget))
    /\ (/\ pc = "done"
        /\ ~Truthy(cmpOptions, "allowHigherVersions")
        /\ Truthy(cmpOptions, "ignorePatch")
        /\ ~Truthy(cmpOptions, "ignoreMinor")
        /\ versionA = Ver(<<12, 0, 0>>)
        /\ versionB = Ver(<<10, 0, 0>>))
        => (cmpResult.threw = "" /\ ~cmpResult.value)

\* a higher candidate was accepted under allowHigherVersions although the
\* ignore options alone would confine it to the target's minor or major
C4_Witness ==
    /\ pc = "done"
    /\ Truthy(cmpOptions, "allowHigherVersions")
    /\ Truthy(cmpOptions, "ignorePatch")
    /\ versionA = Ver(<<12, 0, 0>>)
    /\ versionB = Ver(<<10, 0, 0>>)
    /\ cmpResult.value

----------------------------------------------------------------------------
(* resolveUserAgent applied to every output of the tokenizer *)

BrowserNames ==
    { "", "Safari", "Mobile Safari", "Chrome", "Chrome Mobile", "Chrome WebView",
      "Chromium", "Chrome Headless", "Samsung Browser", "Firefox Mobile", "IE",
      "IEMobile", "Android Browser", "Opera" }

OsNames == { "", "iOS", "Android", "Windows" }

EngineNames == { "", "Blink", "WebKit" }

\* undefined, "", "79.0.3945.73", "-5", "7.1b"
BrowserVersions ==
    { ABSENT, EmptyString, Ver(<<79, 0, 3945, 73>>), << Neg(5) >>,
      << Num(7), NumWord(1, "b") >> }

\* undefined, "13.3", "x"
OsVersions == { ABSENT, Ver(<<13, 3>>), << Word("x") >> }

\* undefined, "91.0.4472"
EngineVersions == { ABSENT, Ver(<<91, 0, 4472>>) }

InitResolve ==
    /\ pc = "resolveUserAgent"
    /\ parsedUA \in
        [browser : [name : BrowserNames, version : BrowserVersions],
         os : [name : OsNames, version : OsVersions],
         engine : [name : EngineNames, version : EngineVersions]]
    /\ resolvedUserAgent = NoBrowser
    /\ IdleCompare /\ IdleRange /\ IdleMatch

ResolveUserAgent ==
    /\ pc = "resolveUserAgent"
    /\ resolvedUserAgent' = resolveUserAgent(parsedUA)
    /\ pc' = "done"
    /\ UNCHANGED << parsedUA, versionA, versionB, cmpOptions, cmpResult, tokenName,
                    versionRange, versionsInRange, browsers, opts, parsedBrowsers,
                    options, result, handed >>

SpecResolve == InitResolve /\ [][ResolveUserAgent]_vars

\* a browser version the tokenizer found: neither undefined nor ""
BrowserVersionPresent == parsedUA.browser.version \notin {ABSENT, EmptyString}

\* the names of BrowserNames that contain "Safari"
SafariNames == { "Safari", "Mobile Safari" }

\* C6: with a non-empty browser name and OS "iOS" the family is "iOS"
\* whatever the browser name and the engine are; the version is the
\* normalized browser version only when the name contains "Safari" and a
\* browser version is present, and the normalized OS version otherwise.
C6_IosProxy ==
    (pc = "done" /\ parsedUA.browser.name # "" /\ parsedUA.os.name = "iOS")
    => /\ resolvedUserAgent.family = "iOS"
       /\ resolvedUserAgent.version =
            IF parsedUA.browser.name \in SafariNames /\ BrowserVersionPresent
            THEN getNormalizedVersion(parsedUA.browser.version)
            ELSE getNormalizedVersion(parsedUA.os.version)

\* a third-party browser on iOS, named by an override and with the Blink
\* engine, resolved to iOS and the OS version
C6_Witness ==
    /\ pc = "done"
    /\ parsedUA.browser.name = "Chrome Mobile"
    /\ parsedUA.os = [name |-> "iOS", version |-> Ver(<<13, 3>>)]
    /\ parsedUA.browser.version = Ver(<<79, 0, 3945, 73>>)
    /\ parsedUA.engine.name = "Blink"
    /\ resolvedUserAgent = [family |-> "iOS", version |-> Ver(<<13, 3, 0>>)]

\* the family a named override gives, "" when the name has none
NamedOverride(name) ==
    CASE name \in {"Chrome Mobile", "Chrome WebView", "Chromium", "Chrome Headless"}
            -> "Chrome"
      [] name = "Samsung Browser" -> "Samsung"
      [] name = "Firefox Mobile" -> "Firefox"
      [] name = "IE" -> "Explorer"
      [] name = "IEMobile" -> "ExplorerMobile"
      [] OTHER -> ""

\* C10: off iOS the first matching rule applies: a named override keeps the
\* browser version and wins over Blink on Android; otherwise Blink on
\* Android gives "Chrome" with the engine version, also for "Android
\* Browser"; only otherwise "Android Browser" gives "Android" with the OS
\* version; any other name is returned with the browser version.
C10_RulePriority ==
    (pc = "done" /\ parsedUA.browser.name # "" /\ parsedUA.os.name # "iOS")
    => resolvedUserAgent =
        IF NamedOverride(parsedUA.browser.name) # ""
        THEN [family |-> NamedOverride(parsedUA.browser.name),
              version |-> getNormalizedVersion(parsedUA.browser.version)]
        ELSE IF parsedUA.engine.name = "Blink" /\ parsedUA.os.name = "Android"
        THEN [family |-> "Chrome",
              version |-> getNormalizedVersion(parsedUA.engine.version)]
        ELSE IF parsedUA.browser.name = "Android Browser"
        THEN [family |-> "Android",
              version |-> getNormalizedVersion(parsedUA.os.version)]
        ELSE [family |-> parsedUA.browser.name,
              version |-> getNormalizedVersion(parsedUA.browser.version)]

\* "Android Browser" with the Blink engine on Android resolved to Chrome
\* and the engine version
C10_Witness ==
    /\ pc = "done"
    /\ parsedUA.browser.name = "Android Browser"
    /\ parsedUA.os = [name |-> "Android", version |-> Ver(<<13, 3>>)]
    /\ parsedUA.engine = [name |-> "Blink", version |-> Ver(<<91, 0, 4472>>)]
    /\ resolvedUserAgent = [family |-> "Chrome", version |-> Ver(<<91, 0, 4472>>)]

----------------------------------------------------------------------------
(* generateSemversInRange and parseBrowsersList applied to every range token *)

InitRange ==
    /\ pc = "generateSemversInRange"
    /\ tokenName \in {"ios_saf", "android"}
    /\ versionRange \in { << start, end >> : start \in PartialVersions, end \in PartialVersions }
    /\ versionsInRange = NoSequence
    /\ browsers = << [name |-> tokenName, version |-> versionRange] >>
    /\ parsedBrowsers = NoSequence
    /\ opts = << >>
    /\ options = << >>
    /\ result = NoCompletion
    /\ handed = {}
    /\ IdleResolve /\ IdleCompare

GenerateSemversInRange ==
    /\ pc = "generateSemversInRange"
    /\ versionsInRange' = generateSemversInRange(versionRange)
    /\ pc' = "parseBrowsersList"
    /\ UNCHANGED << parsedUA, resolvedUserAgent, versionA, versionB, cmpOptions,
                    cmpResult, tokenName, versionRange, browsers, opts, parsedBrowsers,
                    options, result, handed >>

ParseBrowsersList ==
    /\ pc = "parseBrowsersList"
    /\ parsedBrowsers' = parseBrowsersList(browsers)
    /\ pc' = "done"
    /\ UNCHANGED << parsedUA, resolvedUserAgent, versionA, versionB, cmpOptions,
                    cmpResult, tokenName, versionRange, versionsInRange, browsers, opts,
                    options, result, handed >>

NextRange == GenerateSemversInRange \/ ParseBrowsersList

SpecRange == InitRange /\ [][NextRange]_vars

\* the start and the end of the range, normalized to three components
RangeStart == Ver(<< Component(versionRange[1], 1), Component(versionRange[1], 2),
                     Component(versionRange[1], 3) >>)
RangeEnd == Ver(<< Component(versionRange[2], 1), Component(versionRange[2], 2),
                   Component(versionRange[2], 3) >>)

\* a < b: major, then minor, then patch
Below(a, b) ==
    \/ a[1].val < b[1].val
    \/ a[1].val = b[1].val /\ a[2].val < b[2].val
    \/ a[1].val = b[1].val /\ a[2].val = b[2].val /\ a[3].val < b[3].val

Generated == pc \in {"parseBrowsersList", "done"}

\* C8, as stated: for a range whose normalized end is lower than its
\* normalized start generateSemversInRange returns exactly one element, the
\* normalized start, and parseBrowsersList emits exactly one target.
C8_InvertedRangeYieldsStart ==
    /\ (Generated /\ Below(RangeEnd, RangeStart))
        => versionsInRange = [threw |-> "", value |-> << RangeStart >>]
    /\ (pc = "done" /\ Below(RangeEnd, RangeStart))
        => (parsedBrowsers.threw = "" /\ Len(parsedBrowsers.value) = 1)

\* C8, amended: for a range whose normalized end is lower than its
\* normalized start generateSemversInRange returns the empty sequence, and
\* parseBrowsersList emits no target for the token.
C8_InvertedRangeYieldsNothing ==
    /\ (Generated /\ Below(RangeEnd, RangeStart))
        => versionsInRange = [threw |-> "", value |-> << >>]
    /\ (pc = "done" /\ Below(RangeEnd, RangeStart))
        => parsedBrowsers = [threw |-> "", value |-> << >>]

\* the token "ios_saf 1.2-1.1" was parsed
C8_Witness ==
    /\ pc = "done"
    /\ tokenName = "ios_saf"
    /\ versionRange = << Ver(<<1, 2>>), Ver(<<1, 1>>) >>
    /\ Below(RangeEnd, RangeStart)
    /\ parsedBrowsers.value = << >>

\* C9: for a range A-B with normalize(A) <= normalize(B) the function
\* terminates and returns a non-empty, strictly increasing sequence that
\* starts with normalize(A), each later element being the previous one with
\* the minor incremented and the patch reset to 0, none exceeding
\* normalize(B).
C9_RangeExpansion ==
    (Generated /\ ~Below(RangeEnd, RangeStart))
    => LET seq == versionsInRange.value
       IN  /\ versionsInRange.threw = ""
           /\ Len(seq) >= 1
           /\ seq[1] = RangeStart
           /\ \A i \in 2..Len(seq) :
                /\ seq[i] = << seq[i - 1][1], Num(seq[i - 1][2].val + 1), Num(0) >>
                /\ Below(seq[i - 1], seq[i])
           /\ \A i \in 1..Len(seq) : ~Below(RangeEnd, seq[i])


\* the loop of generateSemversInRange has no exit exactly when the end has a
\* higher major than the start: incrementing the minor never reaches it
RangeLoopExhaustsHeapOnlyAcrossMajors ==
    Generated => (versionsInRange.threw = "OutOfMemory" <=> RangeStart[1].val < RangeEnd[1].val)

----------------------------------------------------------------------------
(* matchesUA applied to user agents, token lists and options *)

\* "chrome 10", "chrome 10.1.5", "and_chr 10.0-10.2", "ios_saf 10.1",
\* "ios_saf 10.0-10.2", "chrome TP"
Tokens ==
    { [name |-> "chrome", version |-> << Ver(<<10>>) >>],
      [name |-> "chrome", version |-> << Ver(<<10, 1, 5>>) >>],
      [name |-> "and_chr", version |-> << Ver(<<10, 0>>), Ver(<<10, 2>>) >>],
      [name |-> "ios_saf", version |-> << Ver(<<10, 1>>) >>],
      [name |-> "ios_saf", version |-> << Ver(<<10, 0>>), Ver(<<10, 2>>) >>],
      [name |-> "chrome", version |-> TP] }

TokenLists == UNION { [1..n -> Tokens] : n \in 0..MaxTokens }

\* the tokenizer's output for a browser on its usual OS
ParsedUA(n, v) ==
    [browser |-> [name |-> n, version |-> v],
     os |-> [name |-> IF n = "Mobile Safari" THEN "iOS" ELSE "Linux",
             version |-> Ver(<<10>>)],
     engine |-> [name |-> "", version |-> ABSENT]]

\* the tokenizer's outputs matchesUA is applied to: no browser found,
\* Chromium on Linux and Mobile Safari on iOS with the browser versions
\* "10.1.5", "10.1.9", "10.2" and "12", and Chromium with the version "-5"
MatchUAs ==
    { NoParsedUA, ParsedUA("Chromium", << Neg(5) >>) }
    \cup { ParsedUA(n, v) :
            n \in {"Chromium", "Mobile Safari"},
            v \in { Ver(<<10, 1, 5>>), Ver(<<10, 1, 9>>), Ver(<<10, 2>>), Ver(<<12>>) } }

\* the caller's ignorePatch and ignoreMinor absent, true or false, its
\* allowHigherVersions absent or true
MatchOptions == { o \in OptionSets : Truthy(o, "allowHigherVersions")
                                      \/ "allowHigherVersions" \notin DOMAIN o }

Init ==
    /\ pc = "matchesUA"
    /\ parsedUA \in MatchUAs
    /\ browsers \in TokenLists
    /\ opts \in MatchOptions
    /\ parsedBrowsers = NoSequence
    /\ resolvedUserAgent = NoBrowser
    /\ options = << >>
    /\ result = NoCompletion
    /\ handed = {}
    /\ IdleCompare /\ IdleRange

\* the whole of matchesUA; an exception of parseBrowsersList leaves it
\* before the user agent is resolved
MatchesUA ==
    /\ pc = "matchesUA"
    /\ parsedBrowsers' = parseBrowsersList(browsers)
    /\ IF parsedBrowsers'.threw # ""
       THEN /\ result' = [threw |-> parsedBrowsers'.threw, value |-> FALSE]
            /\ UNCHANGED << resolvedUserAgent, options, handed >>
       ELSE /\ resolvedUserAgent' = resolveUserAgent(parsedUA)
            /\ options' = MergeOptions(opts)
            /\ result' = Some(parsedBrowsers'.value, resolvedUserAgent', options')
            /\ handed' = Handed(parsedBrowsers'.value, resolvedUserAgent', options')
    /\ pc' = "done"
    /\ UNCHANGED << parsedUA, versionA, versionB, cmpOptions, cmpResult, tokenName,
                    versionRange, versionsInRange, browsers, opts >>

Next == MatchesUA

Spec == Init /\ [][Next]_vars

----------------------------------------------------------------------------
(* Properties of matchesUA, under Spec *)

\* the spellings of one family name that differ in letter case only
CaseVariants == { {"chrome", "Chrome"}, {"ios", "iOS"}, {"firefox", "Firefox"} }

\* equality of two names up to letter case
SameIgnoringCase(a, b) == a = b \/ \E S \in CaseVariants : a \in S /\ b \in S

Targets == { parsedBrowsers.value[i] : i \in 1..Len(parsedBrowsers.value) }

\* compareBrowserSemvers returned true for the target
Qualifies(target, o) ==
    LET c == compareBrowserSemvers(resolvedUserAgent.version, target.version, o)
    IN  c.threw = "" /\ c.value

Returned == pc = "done" /\ result.threw = ""

SuppliedOrDefault(key, default) == IF key \in DOMAIN opts THEN opts[key] ELSE default

\* C5: the caller's ignorePatch and ignoreMinor win over the defaults and
\* are what the comparator uses: with ignorePatch false (ignoreMinor and
\* allowHigherVersions unset) only a target with exactly the candidate's
\* version matches, and with no ignorePatch the comparison is the one of
\* ignorePatch true.
C5_CallerOptionsWin ==
    pc = "done"
    => /\ options["ignorePatch"] = SuppliedOrDefault("ignorePatch", TRUE)
       /\ options["ignoreMinor"] = SuppliedOrDefault("ignoreMinor", FALSE)
       /\ (/\ ~SuppliedOrDefault("ignorePatch", TRUE)
           /\ ~Truthy(opts, "ignoreMinor")
           /\ ~Truthy(opts, "allowHigherVersions"))
           => (result.value
                <=> \E t \in Targets :
                        /\ SameIgnoringCase(t.family, resolvedUserAgent.family)
                        /\ SemverValid(resolvedUserAgent.version)
                        /\ \A i \in 1..3 :
                            Component(t.version, i) = resolvedUserAgent.version[i].val)
       /\ (/\ "ignorePatch" \notin DOMAIN opts
           /\ ~Truthy(opts, "ignoreMinor")
           /\ ~Truthy(opts, "allowHigherVersions"))
           => (result.value
                <=> \E t \in Targets :
                        /\ SameIgnoringCase(t.family, resolvedUserAgent.family)
                        /\ Qualifies(t, [ignorePatch |-> TRUE]))

\* the caller passed ignorePatch: false and a target that differs from the
\* candidate 10.1.9 in the patch alone (10.1.5) did not match
C5_Witness ==
    /\ Returned
    /\ "ignorePatch" \in DOMAIN opts
    /\ ~opts["ignorePatch"]
    /\ ~Truthy(opts, "ignoreMinor")
    /\ ~Truthy(opts, "allowHigherVersions")
    /\ resolvedUserAgent = [family |-> "Chrome", version |-> Ver(<<10, 1, 9>>)]
    /\ [family |-> "chrome", version |-> Ver(<<10, 1, 5>>)] \in Targets
    /\ ~result.value

\* exactly three non-negative integers separated by dots
ThreeNonNegativeIntegers(v) ==
    /\ Len(v) = 3
    /\ \A i \in 1..3 : v[i].hasDigits /\ ~v[i].minus /\ v[i].tail = ""

\* C7: every version string handed to semver.gte or semver.satisfies, for
\* the candidate and for the target, is exactly three non-negative integers
\* separated by dots.
C7_HandedVersionsAreSemver ==
    \A v \in handed : ThreeNonNegativeIntegers(v)

====
